---- MODULE Spec2Model ----
(***************************************************************************)
(* Verification model of the fred frontend:                                *)
(*   - the RTK Query cache tags of the team endpoints                      *)
(*     (slices/knowledgeFlow/knowledgeFlowApiEnhancements.ts),             *)
(*   - NavigationTabs and TeamDetailsPage routing,                         *)
(*   - the tag tree (shared/utils/tagTree) and the folder selection of     *)
(*     DocumentLibraryTree.                                                *)
(* Paths are sequences of segments: "/team/t1/apps" is <<"team","t1",      *)
(* "apps">>.  Optional values are records Undefined / Some(v).             *)
(***************************************************************************)
EXTENDS Integers, Sequences, FiniteSets, TLC

VARIABLES
    serverTeams,     \* backend: team id -> [rev, permissions]
    serverMembers,   \* backend: team id -> (user id -> relation or "none")
    cache,           \* RTK Query cache: query key -> [status, data, tags]
    location,        \* browser location (sequence of path segments)
    navProps,        \* props handed to a stand-alone NavigationTabs
    navLocation,     \* location seen by the stand-alone NavigationTabs
    navLast,         \* what the stand-alone NavigationTabs did last
    treeTags,        \* the tags handed to buildTree
    tree,            \* the TagNode tree: address of a node -> node
    treePath,        \* the path last handed to findNode
    treeFound,       \* address of the node findNode returned for it
    documentsByTagId,   \* tag id -> the documents loaded for that tag
    selectedDocs,       \* document uid -> the tag it is selected under
    selectedFolder,     \* full path of the selected folder, if any
    selectedFolderTotal, \* total of the selected folder, if known
    perTagTotals,       \* cached totals per tag id, if any
    selLast,            \* the last operation on the selection, with the selection before it
    aggCall,            \* the last call of an aggregation over the tree, with its argument
    aggResult,          \* what that call returned
    dialogOptions,      \* ConfirmationDialogProvider: the options of the open dialog, if any
    invoked,            \* the callbacks of dialog options invoked so far, in order
    dlgLast,            \* what the user did last with the dialog, and the state before
    shareProps,         \* DocumentLibraryShareAddTab: the props (tag, onShared)
    pendingRecipients,  \* the recipients to share with, in order
    searchQuery,        \* the text of the search field
    isSharing,          \* handleShare is running
    shareError,         \* the error message shown, if any
    shareRun            \* the current or last run of handleShare: what it captured,
                        \* the requests it sent, their results, whether it called onShared

teamVars == <<serverTeams, serverMembers, cache, location>>
navVars == <<navProps, navLocation, navLast>>
treeVars == <<treeTags, tree, treePath, treeFound>>

selVars == <<documentsByTagId, selectedDocs, selectedFolder, selectedFolderTotal,
             perTagTotals, selLast>>

aggVars == <<aggCall, aggResult>>

dlgVars == <<dialogOptions, invoked, dlgLast>>

shareVars == <<shareProps, pendingRecipients, searchQuery, isSharing, shareError, shareRun>>

otherVars == <<dlgVars, shareVars>>

auxVars == <<aggVars, otherVars>>

vars == <<teamVars, navVars, treeVars, selVars, auxVars>>

(***************************************************************************)
(* Bounds and finite universes                                             *)
(***************************************************************************)
MaxRev == 1

Teams == {"t1", "t2"}
TeamOrder == <<"t1", "t2">>
Users == {"u1", "u2"}
UserOrder == <<"u1", "u2">>
TEAM_ROLES == {"owner", "member"}
TabPermissions == {"can_read_members", "can_update_info"}

Undefined == [defined |-> FALSE]
Some(v) == [defined |-> TRUE, value |-> v]

Range(s) == {s[i] : i \in 1..Len(s)}

(***************************************************************************)
(* Backend answers (the REST endpoints behind the generated hooks)         *)
(***************************************************************************)
TeamRecord(st, t) ==
    [id |-> t, rev |-> st[t].rev, permissions |-> st[t].permissions]

RECURSIVE MapTeams(_, _)
MapTeams(st, order) ==
    IF order = <<>> THEN <<>>
    ELSE <<TeamRecord(st, Head(order))>> \o MapTeams(st, Tail(order))

RECURSIVE MapMembers(_, _)
MapMembers(rel, order) ==
    IF order = <<>> THEN <<>>
    ELSE (IF rel[Head(order)] = "none" THEN <<>>
          ELSE <<[user |-> [id |-> Head(order)], relation |-> rel[Head(order)]]>>)
         \o MapMembers(rel, Tail(order))

QueryKeys ==
    {[endpoint |-> "listTeams"]}
    \cup {[endpoint |-> "getTeam", teamId |-> t] : t \in Teams}
    \cup {[endpoint |-> "listTeamMembers", teamId |-> t] : t \in Teams}

ServerResult(key, st, sm) ==
    CASE key.endpoint = "listTeams" -> MapTeams(st, TeamOrder)
      [] key.endpoint = "getTeam" -> TeamRecord(st, key.teamId)
      [] key.endpoint = "listTeamMembers" -> MapMembers(sm[key.teamId], UserOrder)

(***************************************************************************)
(* Cache tags of the enhanced endpoints                                    *)
(***************************************************************************)
Tag(type, id) == [type |-> type, id |-> id]

RECURSIVE TeamTags(_)
TeamTags(result) ==
    IF result = <<>> THEN <<>>
    ELSE <<Tag("Team", Head(result).id)>> \o TeamTags(Tail(result))

RECURSIVE MemberTags(_, _)
MemberTags(result, teamId) ==
    IF result = <<>> THEN <<>>
    ELSE <<Tag("TeamMember", teamId \o "-" \o Head(result).user.id)>>
         \o MemberTags(Tail(result), teamId)

listTeams_providesTagsNoList(result) ==
    IF result.defined THEN TeamTags(result.value) \o <<Tag("Team", "LIST")>>
    ELSE <<>>

listTeams_providesTags(result) ==
    IF result.defined THEN TeamTags(result.value) \o <<Tag("Team", "LIST")>>
    ELSE <<Tag("Team", "LIST")>>

getTeam_providesTags(arg) == <<Tag("Team", arg.teamId)>>

updateTeam_invalidatesTagsNoItem(arg) == <<Tag("Team", "LIST")>>

updateTeam_invalidatesTags(arg) ==
    <<Tag("Team", arg.teamId), Tag("Team", "LIST")>>

uploadTeamBanner_invalidatesTags(arg) ==
    <<Tag("Team", arg.teamId), Tag("Team", "LIST")>>

listTeamMembers_providesTags(result, arg) ==
    IF result.defined
    THEN MemberTags(result.value, arg.teamId)
         \o <<Tag("TeamMember", "LIST-" \o arg.teamId)>>
    ELSE <<Tag("TeamMember", "LIST-" \o arg.teamId)>>

addTeamMember_invalidatesTagsNoTeam(arg) ==
    <<Tag("TeamMember", "LIST-" \o arg.teamId)>>

addTeamMember_invalidatesTags(arg) ==
    <<Tag("TeamMember", "LIST-" \o arg.teamId), Tag("Team", arg.teamId)>>

updateTeamMember_invalidatesTags(arg) ==
    <<Tag("TeamMember", arg.teamId \o "-" \o arg.userId),
      Tag("TeamMember", "LIST-" \o arg.teamId),
      Tag("Team", arg.teamId)>>

removeTeamMember_invalidatesTags(arg) ==
    <<Tag("TeamMember", arg.teamId \o "-" \o arg.userId),
      Tag("TeamMember", "LIST-" \o arg.teamId),
      Tag("Team", arg.teamId)>>

providesTags(key, result) ==
    CASE key.endpoint = "listTeams" -> listTeams_providesTags(result)
      [] key.endpoint = "getTeam" -> getTeam_providesTags(key)
      [] key.endpoint = "listTeamMembers" -> listTeamMembers_providesTags(result, key)

invalidatesTags(op, arg) ==
    CASE op = "updateTeam" -> updateTeam_invalidatesTags(arg)
      [] op = "uploadTeamBanner" -> uploadTeamBanner_invalidatesTags(arg)
      [] op = "addTeamMember" -> addTeamMember_invalidatesTags(arg)
      [] op = "updateTeamMember" -> updateTeamMember_invalidatesTags(arg)
      [] op = "removeTeamMember" -> removeTeamMember_invalidatesTags(arg)

(***************************************************************************)
(* RTK Query cache                                                         *)
(***************************************************************************)
EmptyEntry == [status |-> "uninitialized", data |-> Undefined, tags |-> <<>>]

\* The keys whose provided tags meet the invalidated tags.
Matching(c, tags) ==
    {k \in QueryKeys : c[k].status # "uninitialized"
                       /\ Range(c[k].tags) \cap Range(tags) # {}}

\* "When a mutation completes, RTK Query automatically refetches any queries
\* with matching tags": the matching entries go back to pending, keeping
\* their data and tags until the refetch answers.
Invalidate(c, tags) ==
    [k \in QueryKeys |->
        IF k \in Matching(c, tags) THEN [c[k] EXCEPT !.status = "pending"]
        ELSE c[k]]

(***************************************************************************)
(* NavigationTabs (components/NavigationTabs.tsx)                          *)
(***************************************************************************)
NoPath == <<>>

TabConfig(label, path, component) ==
    [label |-> label, path |-> path, component |-> component]

\* tabs.findIndex((tab) => location.pathname === tab.path); 1-based, -1 if none
RECURSIVE findIndexFrom(_, _, _)
findIndexFrom(tabs, pathname, i) ==
    IF i > Len(tabs) THEN -1
    ELSE IF pathname = tabs[i].path THEN i
    ELSE findIndexFrom(tabs, pathname, i + 1)

currentTabIndex(tabs, pathname) == findIndexFrom(tabs, pathname, 1)

\* currentTabIndex !== -1 ? currentTabIndex : false
tabValue(tabs, pathname) ==
    IF currentTabIndex(tabs, pathname) # -1
    THEN Some(currentTabIndex(tabs, pathname))
    ELSE Undefined

\* absolutePath.split("/") and its last part
getRelativePath(absolutePath) ==
    IF absolutePath = <<>> THEN "" ELSE absolutePath[Len(absolutePath)]

redirectToPathLast(tabs, defaultPath) ==
    IF defaultPath # NoPath THEN defaultPath
    ELSE IF Len(tabs) > 0 THEN tabs[Len(tabs)].path
    ELSE NoPath

\* defaultPath || tabs[0]?.path || ""
redirectToPath(tabs, defaultPath) ==
    IF defaultPath # NoPath THEN defaultPath
    ELSE IF Len(tabs) > 0 THEN tabs[1].path
    ELSE NoPath

ElementNone == [kind |-> "none"]
ElementOf(component) == [kind |-> "component", component |-> component]
Navigate(to) == [kind |-> "navigate", to |-> to, replace |-> TRUE]

RECURSIVE firstRouteFrom(_, _, _)
firstRouteFrom(tabs, seg, i) ==
    IF i > Len(tabs) THEN 0
    ELSE IF getRelativePath(tabs[i].path) = seg THEN i
    ELSE firstRouteFrom(tabs, seg, i + 1)

IsPrefix(base, path) ==
    Len(base) <= Len(path) /\ SubSeq(path, 1, Len(base)) = base

Routes(props, base, pathname) ==
    LET rest == SubSeq(pathname, Len(base) + 1, Len(pathname))
        to == redirectToPath(props.tabs, props.defaultPath)
        hit == IF Len(rest) = 1 THEN firstRouteFrom(props.tabs, rest[1], 1) ELSE 0
    IN  IF hit # 0 THEN ElementOf(props.tabs[hit].component)
        ELSE IF rest = <<>> THEN Navigate(to)
        ELSE IF ~props.isLoading THEN Navigate(to)
        ELSE ElementNone

NavigationTabs(props, base, pathname) ==
    [value |-> tabValue(props.tabs, pathname),
     content |-> Routes(props, base, pathname)]

(***************************************************************************)
(* TeamDetailsPage (pages/KnowledgeHub.tsx) and TeamsPage                  *)
(***************************************************************************)
\* isLoading of a query hook: a first load is under way and there is no data.
HookIsLoading(entry) ==
    entry.status \in {"uninitialized", "pending"} /\ ~entry.data.defined

\* team?.permissions?.includes(p)
TeamHas(team, p) == team.defined /\ p \in team.value.permissions

TeamPath(teamId, seg) == <<"team", teamId, seg>>

TeamTabsNoGate(teamId, team) ==
    <<TabConfig("apps", TeamPath(teamId, "apps"), "TeamAppsPage"),
      TabConfig("members", TeamPath(teamId, "members"), "TeamMembersPage")>>
    \o (IF TeamHas(team, "can_update_info")
        THEN <<TabConfig("settings", TeamPath(teamId, "settings"), "TeamSettingsPage")>>
        ELSE <<>>)

TeamTabs(teamId, team) ==
    <<TabConfig("apps", TeamPath(teamId, "apps"), "TeamAppsPage")>>
    \o (IF TeamHas(team, "can_read_members")
        THEN <<TabConfig("members", TeamPath(teamId, "members"), "TeamMembersPage")>>
        ELSE <<>>)
    \o (IF TeamHas(team, "can_update_info")
        THEN <<TabConfig("settings", TeamPath(teamId, "settings"), "TeamSettingsPage")>>
        ELSE <<>>)

OnTeamPage(loc) == Len(loc) >= 2 /\ loc[1] = "team"
TeamIdOf(loc) == loc[2]
TeamBase(loc) == SubSeq(loc, 1, 2)
GetTeamKey(t) == [endpoint |-> "getTeam", teamId |-> t]
MembersKey(t) == [endpoint |-> "listTeamMembers", teamId |-> t]
ListTeamsKey == [endpoint |-> "listTeams"]

TeamDetailsProps(c, loc) ==
    [tabs |-> TeamTabs(TeamIdOf(loc), c[GetTeamKey(TeamIdOf(loc))].data),
     defaultPath |-> NoPath,
     isLoading |-> HookIsLoading(c[GetTeamKey(TeamIdOf(loc))])]

TeamDetailsPage(c, loc) ==
    NavigationTabs(TeamDetailsProps(c, loc), TeamBase(loc), loc)

\* The queries the mounted pages subscribe to.
Required(c, loc) ==
    IF loc = <<"teams">> THEN {ListTeamsKey}
    ELSE IF OnTeamPage(loc)
    THEN {GetTeamKey(TeamIdOf(loc))}
         \cup (IF TeamDetailsPage(c, loc).content = ElementOf("TeamMembersPage")
               THEN {MembersKey(TeamIdOf(loc))} ELSE {})
    ELSE {}

\* Hooks of mounted pages start the query of an absent entry; an entry no
\* mounted page subscribes to is removed at once (keepUnusedDataFor: 0).
Mount(c, loc) ==
    LET required == Required(c, loc)
    IN  [k \in QueryKeys |->
           IF k \notin required THEN EmptyEntry
           ELSE IF c[k].status = "uninitialized" THEN [c[k] EXCEPT !.status = "pending"]
           ELSE c[k]]

(***************************************************************************)
(* The team pages over the cache: state machine                            *)
(***************************************************************************)
\* The pages the user visits: the teams page and the tabs of team ViewedTeam.
ViewedTeam == "t1"
Rests == {<<>>, <<"apps">>, <<"members">>, <<"settings">>, <<"drafts">>}
Locations == {<<"teams">>} \cup {<<"team", ViewedTeam>> \o r : r \in Rests}

InitTeams ==
    /\ \E p \in SUBSET TabPermissions :
          serverTeams = [t \in Teams |->
                           [rev |-> 0,
                            permissions |-> IF t = ViewedTeam THEN p ELSE {}]]
    /\ serverMembers = [t \in Teams |-> [u \in Users |-> IF u = "u1" THEN "owner" ELSE "none"]]
    /\ cache = [k \in QueryKeys |-> EmptyEntry]
    /\ location = <<"home">>

\* The user loads a page of the application in the browser: the store starts
\* empty and the pages of that location mount.
OpenDirect(loc) ==
    /\ location' = loc
    /\ cache' = Mount([k \in QueryKeys |-> EmptyEntry], loc)
    /\ UNCHANGED <<serverTeams, serverMembers, navVars, treeVars, selVars, auxVars>>

\* LinkTab: a click on tab i of the team page.
ClickTab(i) ==
    /\ OnTeamPage(location)
    /\ i \in 1..Len(TeamDetailsProps(cache, location).tabs)
    /\ location' = TeamDetailsProps(cache, location).tabs[i].path
    /\ cache' = Mount(cache, location')
    /\ UNCHANGED <<serverTeams, serverMembers, navVars, treeVars, selVars, auxVars>>

\* <Navigate to=... replace/> rendered by NavigationTabs takes effect.
Redirect ==
    /\ OnTeamPage(location)
    /\ TeamDetailsPage(cache, location).content.kind = "navigate"
    /\ location' = TeamDetailsPage(cache, location).content.to
    /\ cache' = Mount(cache, location')
    /\ UNCHANGED <<serverTeams, serverMembers, navVars, treeVars, selVars, auxVars>>

QueryFulfilled(key) ==
    /\ cache[key].status = "pending"
    /\ LET result == Some(ServerResult(key, serverTeams, serverMembers))
           c1 == [cache EXCEPT ![key] = [status |-> "fulfilled", data |-> result,
                                         tags |-> providesTags(key, result)]]
       IN  cache' = Mount(c1, location)
    /\ UNCHANGED <<serverTeams, serverMembers, location, navVars, treeVars, selVars, auxVars>>

QueryRejected(key) ==
    /\ cache[key].status = "pending"
    /\ LET c1 == [cache EXCEPT ![key].status = "rejected",
                               ![key].tags = providesTags(key, Undefined)]
       IN  cache' = Mount(c1, location)
    /\ UNCHANGED <<serverTeams, serverMembers, location, navVars, treeVars, selVars, auxVars>>

\* A mutation completes: the tags it invalidates are computed from its
\* argument alone, whether the backend applied it or refused it.
Completed(op, arg) ==
    /\ UNCHANGED <<location, navVars, treeVars, selVars, auxVars>>
    /\ cache' = Mount(Invalidate(cache, invalidatesTags(op, arg)), location)

updateTeam(t) ==
    /\ serverTeams[t].rev < MaxRev
    /\ serverTeams' = [serverTeams EXCEPT ![t].rev = @ + 1]
    /\ UNCHANGED serverMembers
    /\ Completed("updateTeam", [teamId |-> t])

uploadTeamBanner(t) ==
    /\ serverTeams[t].rev < MaxRev
    /\ serverTeams' = [serverTeams EXCEPT ![t].rev = @ + 1]
    /\ UNCHANGED serverMembers
    /\ Completed("uploadTeamBanner", [teamId |-> t])

\* A change of membership may change what the current user may do in the team.
MemberChange(op, t, u, relation, perms) ==
    /\ serverMembers' = [serverMembers EXCEPT ![t][u] = relation]
    /\ serverTeams' = [serverTeams EXCEPT ![t].permissions = perms]
    /\ Completed(op, [teamId |-> t, userId |-> u])

addTeamMember(t, u, relation, perms) ==
    /\ serverMembers[t][u] = "none"
    /\ MemberChange("addTeamMember", t, u, relation, perms)

updateTeamMember(t, u, relation, perms) ==
    /\ serverMembers[t][u] \notin {"none", relation}
    /\ MemberChange("updateTeamMember", t, u, relation, perms)

removeTeamMember(t, u, perms) ==
    /\ serverMembers[t][u] # "none"
    /\ MemberChange("removeTeamMember", t, u, "none", perms)

\* The backend refuses the mutation (or the request fails): nothing changes
\* on the backend and the mutation still completes.
MutationRejected(op, t, u) ==
    /\ UNCHANGED <<serverTeams, serverMembers, navVars, treeVars, selVars, auxVars>>
    /\ Completed(op, [teamId |-> t, userId |-> u])

Mutations ==
    {"updateTeam", "uploadTeamBanner", "addTeamMember", "updateTeamMember",
     "removeTeamMember"}

\* TeamMembersPage and TeamSettingsPage mutate the team of the page they are
\* on; the request may complete after the user has moved to another page.
NextTeams ==
    \/ \E loc \in Locations : OpenDirect(loc)
    \/ \E i \in 1..3 : ClickTab(i)
    \/ Redirect
    \/ \E key \in QueryKeys : QueryFulfilled(key)
    \/ \E key \in QueryKeys : QueryRejected(key)
    \/ updateTeam(ViewedTeam)
    \/ uploadTeamBanner(ViewedTeam)
    \/ \E u \in Users, r \in TEAM_ROLES, p \in SUBSET TabPermissions :
          addTeamMember(ViewedTeam, u, r, p)
    \/ \E u \in Users, r \in TEAM_ROLES, p \in SUBSET TabPermissions :
          updateTeamMember(ViewedTeam, u, r, p)
    \/ \E u \in Users, p \in SUBSET TabPermissions :
          removeTeamMember(ViewedTeam, u, p)
    \/ \E op \in Mutations, u \in Users : MutationRejected(op, ViewedTeam, u)

(***************************************************************************)
(* NavigationTabs on its own: any props its callers may pass                *)
(***************************************************************************)
NavBase == <<"team", ViewedTeam>>
NavSegments == {"apps", "members", "settings"}
NavTab(seg) == TabConfig(seg, NavBase \o <<seg>>, seg)

\* Sequences of distinct tabs below NavBase, at least one.
NavTabLists ==
    {<<NavTab(a)>> : a \in NavSegments}
    \cup {<<NavTab(p[1]), NavTab(p[2])>> :
            p \in {q \in NavSegments \X NavSegments : q[1] # q[2]}}
    \cup {<<NavTab(p[1]), NavTab(p[2]), NavTab(p[3])>> :
            p \in {q \in NavSegments \X NavSegments \X NavSegments :
                     q[1] # q[2] /\ q[1] # q[3] /\ q[2] # q[3]}}

NavDefaultPaths == {NoPath, NavBase \o <<"members">>, <<"teams">>}

NavProps == [tabs : NavTabLists, defaultPath : NavDefaultPaths, isLoading : BOOLEAN]

NavLocations ==
    {NavBase, NavBase \o <<"apps">>, NavBase \o <<"members">>,
     NavBase \o <<"settings">>, NavBase \o <<"drafts">>,
     NavBase \o <<"members", "drafts">>}

NavMounted == IsPrefix(NavBase, navLocation)

NavRendered == NavigationTabs(navProps, NavBase, navLocation)

NavIdle ==
    /\ navProps = [tabs |-> <<NavTab("apps")>>, defaultPath |-> NoPath, isLoading |-> FALSE]
    /\ navLocation = <<"teams">>
    /\ navLast = [kind |-> "none"]

InitNav ==
    /\ navProps \in NavProps
    /\ navLocation \in NavLocations
    /\ navLast = [kind |-> "none"]

\* The user opens a location below the parent route.
NavOpen(loc) ==
    /\ navLocation' = loc
    /\ navLast' = [kind |-> "open"]
    /\ UNCHANGED <<navProps, teamVars, treeVars, selVars, auxVars>>

\* LinkTab: a click on tab i.
NavClickTab(i) ==
    /\ NavMounted
    /\ i \in 1..Len(navProps.tabs)
    /\ navLocation' = navProps.tabs[i].path
    /\ navLast' = [kind |-> "click"]
    /\ UNCHANGED <<navProps, teamVars, treeVars, selVars, auxVars>>

\* The parent renders NavigationTabs with other props.
NavSetProps(props) ==
    /\ NavMounted
    /\ props # navProps
    /\ navProps' = props
    /\ navLast' = [kind |-> "props"]
    /\ UNCHANGED <<navLocation, teamVars, treeVars, selVars, auxVars>>

\* <Navigate to={redirectToPath} replace /> takes effect.
NavRedirect ==
    /\ NavMounted
    /\ NavRendered.content.kind = "navigate"
    /\ navLocation' = NavRendered.content.to
    /\ navLast' = [kind |-> "redirect", from |-> navLocation,
                   isLoading |-> navProps.isLoading,
                   replace |-> NavRendered.content.replace]
    /\ UNCHANGED <<navProps, teamVars, treeVars, selVars, auxVars>>

NextNav ==
    \/ \E loc \in NavLocations : NavOpen(loc)
    \/ \E i \in 1..3 : NavClickTab(i)
    \/ \E props \in NavProps : NavSetProps(props)
    \/ NavRedirect

TeamsIdle ==
    /\ serverTeams = [t \in Teams |-> [rev |-> 0, permissions |-> {}]]
    /\ serverMembers = [t \in Teams |-> [u \in Users |-> "none"]]
    /\ cache = [k \in QueryKeys |-> EmptyEntry]
    /\ location = <<"home">>

(***************************************************************************)
(* Strings are sequences of characters: "a/b" is <<"a", "/", "b">>         *)
(***************************************************************************)
RECURSIVE splitFrom(_, _)
splitFrom(str, cur) ==
    IF str = <<>> THEN <<cur>>
    ELSE IF Head(str) = "/" THEN <<cur>> \o splitFrom(Tail(str), <<>>)
    ELSE splitFrom(Tail(str), Append(cur, Head(str)))

\* str.split("/")
split(str) == splitFrom(str, <<>>)

\* parts.filter(Boolean): the empty string is falsy
IsNonEmpty(part) == part # <<>>
filterBoolean(parts) == SelectSeq(parts, IsNonEmpty)

RECURSIVE trimStart(_)
trimStart(str) ==
    IF str # <<>> /\ Head(str) = " " THEN trimStart(Tail(str)) ELSE str

RECURSIVE trimEnd(_)
trimEnd(str) ==
    IF str # <<>> /\ str[Len(str)] = " " THEN trimEnd(SubSeq(str, 1, Len(str) - 1))
    ELSE str

trim(str) == trimEnd(trimStart(str))

(***************************************************************************)
(* Tag tree (shared/utils/tagTree)                                         *)
(***************************************************************************)
\* t.path && t.path.trim() ? `${t.path}/${t.name}` : t.name
fullPath(t) ==
    IF t.path.defined /\ t.path.value # <<>> /\ trim(t.path.value) # <<>>
    THEN t.path.value \o <<"/">> \o t.name
    ELSE t.name

TagNode(name, full) ==
    [name |-> name, full |-> full, children |-> <<>>, tagsHere |-> <<>>]

RootAddress == <<>>

\* cur.children.has(seg); the Map keeps its keys in insertion order
HasChild(tr, cur, seg) == seg \in Range(tr[cur].children)

AddChildSegOnly(tr, cur, seg, i) ==
    [a \in DOMAIN tr \cup {Append(cur, seg)} |->
        IF a = Append(cur, seg) THEN TagNode(seg, seg)
        ELSE IF a = cur THEN [tr[cur] EXCEPT !.children = Append(@, seg)]
        ELSE tr[a]]

\* cur.children.set(seg, {name: seg, full: i === 0 ? seg : `${cur.full}/${seg}`, ...})
AddChild(tr, cur, seg, i) ==
    [a \in DOMAIN tr \cup {Append(cur, seg)} |->
        IF a = Append(cur, seg)
        THEN TagNode(seg, IF i = 0 THEN seg ELSE tr[cur].full \o <<"/">> \o seg)
        ELSE IF a = cur THEN [tr[cur] EXCEPT !.children = Append(@, seg)]
        ELSE tr[a]]

\* parts.forEach((seg, i) => ...): creates the missing nodes on the way down
\* and yields the tree with the node reached.
RECURSIVE descend(_, _, _, _)
descend(tr, cur, parts, i) ==
    IF i >= Len(parts) THEN [tree |-> tr, cur |-> cur]
    ELSE LET seg == parts[i + 1]
             tr1 == IF HasChild(tr, cur, seg) THEN tr ELSE AddChild(tr, cur, seg, i)
         IN  descend(tr1, Append(cur, seg), parts, i + 1)

insertTag(tr, t) ==
    LET parts == filterBoolean(split(fullPath(t)))
        r == descend(tr, RootAddress, parts, 0)
    IN  [r.tree EXCEPT ![r.cur].tagsHere = Append(@, t)]

RECURSIVE buildFrom(_, _)
buildFrom(tr, tags) ==
    IF tags = <<>> THEN tr ELSE buildFrom(insertTag(tr, Head(tags)), Tail(tags))

buildTree(tags) ==
    buildFrom([a \in {RootAddress} |-> TagNode(<<>>, <<>>)], tags)

RECURSIVE findFromPartial(_, _, _)
findFromPartial(tr, cur, parts) ==
    IF parts = <<>> THEN cur
    ELSE IF ~HasChild(tr, cur, Head(parts)) THEN cur
    ELSE findFromPartial(tr, Append(cur, Head(parts)), Tail(parts))

findNodePartial(tr, path) ==
    IF ~path.defined \/ path.value = <<>> THEN RootAddress
    ELSE findFromPartial(tr, RootAddress, filterBoolean(split(path.value)))

RECURSIVE findFrom(_, _, _)
findFrom(tr, cur, parts) ==
    IF parts = <<>> THEN cur
    ELSE IF ~HasChild(tr, cur, Head(parts)) THEN RootAddress
    ELSE findFrom(tr, Append(cur, Head(parts)), Tail(parts))

\* findNode(root, path): the address of the node returned
findNode(tr, path) ==
    IF ~path.defined \/ path.value = <<>> THEN RootAddress
    ELSE findFrom(tr, RootAddress, filterBoolean(split(path.value)))

(***************************************************************************)
(* buildTree and findNode applied to lists of tags                         *)
(***************************************************************************)
MaxTags == 2

TagNames == {<<>>, <<"a">>, <<"b">>, <<"a", "/", "b">>}
TagPaths ==
    {Undefined, Some(<<>>), Some(<<" ">>), Some(<<"a">>), Some(<<"a", "/">>),
     Some(<<"b", "/", "a">>)}
TagIds == <<"g1", "g2", "g3", "g4">>

TagShapes == [name : TagNames, path : TagPaths]

\* Lists of up to MaxTags tags, the i-th with id TagIds[i].
TagLists ==
    UNION {{[i \in 1..n |-> [id |-> TagIds[i], name |-> f[i].name, path |-> f[i].path]] :
              f \in [1..n -> TagShapes]} : n \in 0..MaxTags}

FindPaths ==
    {Undefined, Some(<<>>), Some(<<"/">>), Some(<<"a">>), Some(<<"b">>),
     Some(<<"a", "/", "b">>), Some(<<"a", "/", "/", "b">>), Some(<<"b", "/", "a", "/", "b">>),
     Some(<<"a", "/", "c">>), Some(<<"c", "/", "a">>)}

NoTree == [a \in {RootAddress} |-> TagNode(<<>>, <<>>)]

TreeIdle ==
    /\ treeTags = <<>>
    /\ tree = NoTree
    /\ treePath = Undefined
    /\ treeFound = RootAddress

InitTree ==
    /\ treeTags \in TagLists
    /\ tree = NoTree
    /\ treePath = Undefined
    /\ treeFound = RootAddress

TreeBuilt == tree = buildTree(treeTags)

\* const tree = buildTree(tags)
BuildTree ==
    /\ tree = NoTree
    /\ treeTags # <<>>
    /\ tree' = buildTree(treeTags)
    /\ UNCHANGED <<treeTags, treePath, treeFound, teamVars, navVars, selVars, auxVars>>

\* findNode(tree, path) for a path given by the caller
FindNode(path) ==
    /\ TreeBuilt
    /\ treePath' = path
    /\ treeFound' = findNode(tree, path)
    /\ UNCHANGED <<treeTags, tree, teamVars, navVars, selVars, auxVars>>

\* findNode(tree, fullPath(t)) for a tag of the list
FindTagNode(i) ==
    /\ TreeBuilt
    /\ i \in 1..Len(treeTags)
    /\ treePath' = Some(fullPath(treeTags[i]))
    /\ treeFound' = findNode(tree, treePath')
    /\ UNCHANGED <<treeTags, tree, teamVars, navVars, selVars, auxVars>>

NextTree ==
    \/ BuildTree
    \/ \E path \in FindPaths : FindNode(path)
    \/ \E i \in 1..MaxTags : FindTagNode(i)

(***************************************************************************)
(* DocumentLibraryTree: documents of a folder and their selection          *)
(***************************************************************************)
\* n.tagsHere?.[0]
getPrimaryTag(tr, n) ==
    IF Len(tr[n].tagsHere) > 0 THEN Some(tr[n].tagsHere[1]) ELSE Undefined

\* getChildren(n): the children of a node, in the order of its Map
getChildren(tr, n) == [i \in 1..Len(tr[n].children) |-> Append(n, tr[n].children[i])]

Uid(doc) == doc.identity.document_uid
Uids(docs) == {Uid(docs[i]) : i \in 1..Len(docs)}

pushAll(out, docs) == out \o docs

\* for (const doc of docs) { if (seen.has(uid)) continue; seen.add(uid); out.push(doc) }
RECURSIVE pushUnseen(_, _)
pushUnseen(out, docs) ==
    IF docs = <<>> THEN out
    ELSE IF Uid(Head(docs)) \in Uids(out) THEN pushUnseen(out, Tail(docs))
    ELSE pushUnseen(Append(out, Head(docs)), Tail(docs))

RECURSIVE docsOfTags(_, _, _)
docsOfTags(out, tagIds, docsByTagId) ==
    IF tagIds = <<>> THEN out
    ELSE docsOfTags(pushUnseen(out, docsByTagId[Head(tagIds)]), Tail(tagIds), docsByTagId)

\* getDocsForTags(tagIds, docsByTagId)
getDocsForTags(tagIds, docsByTagId) ==
    IF Len(tagIds) = 0 THEN <<>> ELSE docsOfTags(<<>>, tagIds, docsByTagId)

\* (cur.tagsHere ?? []).map((t) => t.id).filter(Boolean)
TagIdsHere(tr, n) == [i \in 1..Len(tr[n].tagsHere) |-> tr[n].tagsHere[i].id]

RECURSIVE walkStackNodeOnly(_, _, _, _)
walkStackNodeOnly(tr, stack, out, docsByTagId) ==
    IF stack = <<>> THEN out
    ELSE LET cur == stack[Len(stack)]
         IN  pushUnseen(out, getDocsForTags(TagIdsHere(tr, cur), docsByTagId))

docsInSubtreeNodeOnly(tr, root, docsByTagId) ==
    walkStackNodeOnly(tr, <<root>>, <<>>, docsByTagId)

\* while (stack.length) { cur = stack.pop(); ...; for (ch of getChildren(cur)) stack.push(ch) }
RECURSIVE walkStack(_, _, _, _)
walkStack(tr, stack, out, docsByTagId) ==
    IF stack = <<>> THEN out
    ELSE LET cur == stack[Len(stack)]
             rest == SubSeq(stack, 1, Len(stack) - 1)
             out1 == pushUnseen(out, getDocsForTags(TagIdsHere(tr, cur), docsByTagId))
         IN  walkStack(tr, rest \o getChildren(tr, cur), out1, docsByTagId)

\* docsInSubtree(root, docsByTagId, getChildren)
docsInSubtree(tr, root, docsByTagId) == walkStack(tr, <<root>>, <<>>, docsByTagId)

\* (d.tags?.tag_ids ?? []).includes(tag.id)
HasTagId(doc, tagId) == tagId \in Range(doc.tags.tag_ids)

\* subtree.filter((d) => (d.tags?.tag_ids ?? []).includes(tag.id))
eligibleDocs(tr, n, docsByTagId) ==
    IF getPrimaryTag(tr, n).defined
    THEN LET tagId == getPrimaryTag(tr, n).value.id
             Eligible(d) == HasTagId(d, tagId)
         IN  SelectSeq(docsInSubtree(tr, n, docsByTagId), Eligible)
    ELSE <<>>

\* prev[d.identity.document_uid]?.id === tag.id
SelectedHere(sel, uid, tagId) == sel[uid].defined /\ sel[uid].value.id = tagId

\* the state update of toggleFolderSelection: prev => next
toggleFolderUpdate(tr, n, docsByTagId, prev) ==
    LET tag == getPrimaryTag(tr, n)
        eligible == eligibleDocs(tr, n, docsByTagId)
    IN  IF ~tag.defined THEN prev
        ELSE IF Len(eligible) = 0 THEN prev
        ELSE LET anySelectedHere ==
                     \E i \in 1..Len(eligible) : SelectedHere(prev, Uid(eligible[i]), tag.value.id)
             IN  [uid \in DOMAIN prev |->
                    IF uid \notin Uids(eligible) THEN prev[uid]
                    ELSE IF anySelectedHere
                    THEN (IF SelectedHere(prev, uid, tag.value.id) THEN Undefined ELSE prev[uid])
                    ELSE tag]

selectionTotalForTagLoadedOnly(tr, n, docsByTagId, folder, folderTotal, totals) ==
    IF ~getPrimaryTag(tr, n).defined THEN 0
    ELSE Len(eligibleDocs(tr, n, docsByTagId))

\* perTagTotals?.[folderTag.id]
cachedTotal(tr, n, totals) ==
    IF getPrimaryTag(tr, n).defined /\ totals.defined
    THEN totals.value[getPrimaryTag(tr, n).value.id]
    ELSE Undefined

\* isSelected && selectedFolderTotal !== undefined ? selectedFolderTotal
\*                                                 : (cachedTotal ?? eligibleDocs.length)
selectionTotalForTag(tr, n, docsByTagId, folder, folderTotal, totals) ==
    IF ~getPrimaryTag(tr, n).defined THEN 0
    ELSE IF folder = Some(tr[n].full) /\ folderTotal.defined THEN folderTotal.value
    ELSE IF cachedTotal(tr, n, totals).defined THEN cachedTotal(tr, n, totals).value
    ELSE Len(eligibleDocs(tr, n, docsByTagId))

\* eligibleDocs.filter((d) => selectedDocs[uid]?.id === folderTag.id).length
selectedForTag(tr, n, docsByTagId, sel) ==
    IF ~getPrimaryTag(tr, n).defined THEN 0
    ELSE LET tagId == getPrimaryTag(tr, n).value.id
             Here(d) == SelectedHere(sel, Uid(d), tagId)
         IN  Len(SelectSeq(eligibleDocs(tr, n, docsByTagId), Here))

folderChecked(tr, n, docsByTagId, sel, folder, folderTotal, totals) ==
    /\ selectionTotalForTag(tr, n, docsByTagId, folder, folderTotal, totals) > 0
    /\ selectedForTag(tr, n, docsByTagId, sel)
       = selectionTotalForTag(tr, n, docsByTagId, folder, folderTotal, totals)

folderIndeterminate(tr, n, docsByTagId, sel, folder, folderTotal, totals) ==
    /\ selectedForTag(tr, n, docsByTagId, sel) > 0
    /\ selectedForTag(tr, n, docsByTagId, sel)
       < selectionTotalForTag(tr, n, docsByTagId, folder, folderTotal, totals)

(***************************************************************************)
(* The document tree view: state machine                                   *)
(***************************************************************************)
MaxTotal == 2

SelTag(id, name, path) == [id |-> id, name |-> name, path |-> path]

\* Folder "a" with child "a/b"; folder "a" without a tag of its own; folder
\* "a" holding two tags.
SelTagLists ==
    {<<SelTag("g1", <<"a">>, Undefined), SelTag("g2", <<"b">>, Some(<<"a">>))>>,
     <<SelTag("g2", <<"b">>, Some(<<"a">>))>>,
     <<SelTag("g1", <<"a">>, Undefined), SelTag("g2", <<"a">>, Undefined)>>}

SelTagIds == {"g1", "g2"}
Docs == {"d1", "d2", "d3"}
DocOrder == <<"d1", "d2", "d3">>
DocTagIds == [d \in Docs |-> CASE d = "d1" -> <<"g1">>
                               [] d = "d2" -> <<"g1", "g2">>
                               [] d = "d3" -> <<"g2">>]

Document(d) == [identity |-> [document_uid |-> d], tags |-> [tag_ids |-> DocTagIds[d]]]

Folders == DOMAIN tree \ {RootAddress}

Totals == {Undefined} \cup {Some(n) : n \in 0..MaxTotal}

SelIdle ==
    /\ documentsByTagId = [g \in SelTagIds |-> <<>>]
    /\ selectedDocs = [d \in Docs |-> Undefined]
    /\ selectedFolder = Undefined
    /\ selectedFolderTotal = Undefined
    /\ perTagTotals = Undefined
    /\ selLast = [op |-> "none"]

InitSel ==
    /\ treeTags \in SelTagLists
    /\ tree = buildTree(treeTags)
    /\ treePath = Undefined
    /\ treeFound = RootAddress
    /\ SelIdle

Other == [op |-> "other"]

\* The page loads the next document of tag g (in the order of the backend).
LoadDocument(g, d) ==
    /\ HasTagId(Document(d), g)
    /\ d \notin Uids(documentsByTagId[g])
    /\ \A i \in 1..Len(DocOrder) :
          (DocOrder[i] = d)
          => \A j \in 1..(i - 1) :
                HasTagId(Document(DocOrder[j]), g) => DocOrder[j] \in Uids(documentsByTagId[g])
    /\ documentsByTagId' = [documentsByTagId EXCEPT ![g] = Append(@, Document(d))]
    /\ selLast' = Other
    /\ UNCHANGED <<selectedDocs, selectedFolder, selectedFolderTotal, perTagTotals,
                   teamVars, navVars, treeVars, auxVars>>

\* The page learns (or forgets) the totals per tag.
SetPerTagTotals(totals) ==
    /\ totals # perTagTotals
    /\ perTagTotals' = totals
    /\ selLast' = Other
    /\ UNCHANGED <<documentsByTagId, selectedDocs, selectedFolder, selectedFolderTotal,
                   teamVars, navVars, treeVars, auxVars>>

\* onClick of a folder row: setSelectedFolder(isSelected ? null : c.full);
\* the page then provides the total of the selected folder, if it knows it.
ClickFolder(n, total) ==
    /\ n \in Folders
    /\ selectedFolder' = IF selectedFolder = Some(tree[n].full) THEN Undefined
                         ELSE Some(tree[n].full)
    /\ selectedFolderTotal' = IF selectedFolder' = Undefined THEN Undefined ELSE total
    /\ selLast' = Other
    /\ UNCHANGED <<documentsByTagId, selectedDocs, perTagTotals,
                   teamVars, navVars, treeVars, auxVars>>

\* onClick of the checkbox of a folder: toggleFolderSelection(c).  The callback
\* is memoised on [documents, getChildren, setSelectedDocs]; the page hands
\* over a new `documents` with every new documentsByTagId, so the callback
\* reads the documentsByTagId of the current render.
toggleFolderSelection(n) ==
    /\ n \in Folders
    /\ selectedDocs' = toggleFolderUpdate(tree, n, documentsByTagId, selectedDocs)
    /\ selLast' = [op |-> "toggleFolderSelection", node |-> n, prev |-> selectedDocs]
    /\ UNCHANGED <<documentsByTagId, selectedFolder, selectedFolderTotal, perTagTotals,
                   teamVars, navVars, treeVars, auxVars>>

\* onClick of the checkbox of a document row of folder n
toggleDocument(n, d) ==
    /\ n \in Folders
    /\ d \in Uids(getDocsForTags(TagIdsHere(tree, n), documentsByTagId))
    /\ getPrimaryTag(tree, n).defined
    /\ selectedDocs' =
          [selectedDocs EXCEPT ![d] =
              IF SelectedHere(selectedDocs, d, getPrimaryTag(tree, n).value.id)
              THEN Undefined ELSE getPrimaryTag(tree, n)]
    /\ selLast' = Other
    /\ UNCHANGED <<documentsByTagId, selectedFolder, selectedFolderTotal, perTagTotals,
                   teamVars, navVars, treeVars, auxVars>>

FolderAddresses == {<<<<"a">>>>, <<<<"a">>, <<"b">>>>}

PerTagTotals == {Undefined} \cup {Some(f) : f \in [SelTagIds -> Totals]}

NextSel ==
    \/ \E g \in SelTagIds, d \in Docs : LoadDocument(g, d)
    \/ \E totals \in PerTagTotals : SetPerTagTotals(totals)
    \/ \E n \in FolderAddresses, total \in Totals : ClickFolder(n, total)
    \/ \E n \in FolderAddresses : toggleFolderSelection(n)
    \/ \E n \in FolderAddresses, d \in Docs : toggleDocument(n, d)

(***************************************************************************)
(* Aggregations over the tag tree                                          *)
(***************************************************************************)
\* Array.from(new Set(ids)): the first occurrence of every value, in order
RECURSIVE uniqueFrom(_, _)
uniqueFrom(out, ids) ==
    IF ids = <<>> THEN out
    ELSE IF Head(ids) \in Range(out) THEN uniqueFrom(out, Tail(ids))
    ELSE uniqueFrom(Append(out, Head(ids)), Tail(ids))

\* dfs(n): n.tagsHere.forEach(push id); n.children.forEach(dfs)
RECURSIVE dfsTagIds(_, _, _)
dfsTagIds(tr, n, i) ==
    IF i = 0
    THEN [k \in 1..Len(tr[n].tagsHere) |-> tr[n].tagsHere[k].id] \o dfsTagIds(tr, n, 1)
    ELSE IF i > Len(tr[n].children) THEN <<>>
    ELSE dfsTagIds(tr, Append(n, tr[n].children[i]), 0) \o dfsTagIds(tr, n, i + 1)

collectDescendantTagIdsNoSet(tr, node) == dfsTagIds(tr, node, 0)

\* collectDescendantTagIds(node)
collectDescendantTagIds(tr, node) == uniqueFrom(<<>>, dfsTagIds(tr, node, 0))

AggTagNames == {<<"a">>, <<"b">>}
AggTagPaths == {Undefined, Some(<<"a">>), Some(<<"a", "/", "b">>)}
AggTagIds == {"g1", "g2", "g3"}

\* Lists of up to MaxTags tags; a tag may be listed more than once.
AggTagLists ==
    UNION {[1..n -> [id : AggTagIds, name : AggTagNames, path : AggTagPaths]] : n \in 0..MaxTags}

NoCall == [fn |-> "none"]

AggIdle ==
    /\ aggCall = NoCall
    /\ aggResult = <<>>

InitAgg ==
    /\ treeTags \in AggTagLists
    /\ tree = buildTree(treeTags)
    /\ treePath = Undefined
    /\ treeFound = RootAddress
    /\ AggIdle

\* collectDescendantTagIds(node) for a node of the tree
CollectDescendantTagIds(node) ==
    /\ node \in DOMAIN tree
    /\ aggCall' = [fn |-> "collectDescendantTagIds", node |-> node]
    /\ aggResult' = collectDescendantTagIds(tree, node)
    /\ UNCHANGED <<teamVars, navVars, treeVars, selVars, otherVars>>

AggSegments == {<<"a">>, <<"b">>}
AggAddresses == UNION {[1..n -> AggSegments] : n \in 0..3}

NextAgg == \E node \in AggAddresses : CollectDescendantTagIds(node)

(***************************************************************************)
(* getDocsForTags and docsInSubtree applied to loaded documents            *)
(***************************************************************************)
MaxLoaded == 2

\* A document as one request returned it; two requests may return the same
\* document with different metadata.
LoadedDocument(d, name) ==
    [identity |-> [document_uid |-> d, document_name |-> name],
     tags |-> [tag_ids |-> DocTagIds[d]]]

LoadedDocuments ==
    {LoadedDocument("d1", "n1"), LoadedDocument("d1", "n2"), LoadedDocument("d2", "n1")}

LoadedLists == UNION {[1..n -> LoadedDocuments] : n \in 0..MaxLoaded}

InitDocs ==
    /\ treeTags \in SelTagLists
    /\ tree = buildTree(treeTags)
    /\ treePath = Undefined
    /\ treeFound = RootAddress
    /\ documentsByTagId \in [SelTagIds -> LoadedLists]
    /\ selectedDocs = [d \in Docs |-> Undefined]
    /\ selectedFolder = Undefined
    /\ selectedFolderTotal = Undefined
    /\ perTagTotals = Undefined
    /\ selLast = [op |-> "none"]
    /\ AggIdle

\* docsInSubtree(node, documentsByTagId, getChildren) for a node of the tree
DocsInSubtree(node) ==
    /\ node \in DOMAIN tree
    /\ aggCall' = [fn |-> "docsInSubtree", node |-> node]
    /\ aggResult' = docsInSubtree(tree, node, documentsByTagId)
    /\ UNCHANGED <<teamVars, navVars, treeVars, selVars, otherVars>>

\* getDocsForTags(tagIds, documentsByTagId)
GetDocsForTags(tagIds) ==
    /\ aggCall' = [fn |-> "getDocsForTags", tagIds |-> tagIds]
    /\ aggResult' = getDocsForTags(tagIds, documentsByTagId)
    /\ UNCHANGED <<teamVars, navVars, treeVars, selVars, otherVars>>

TagIdLists == UNION {[1..n -> SelTagIds] : n \in 0..2}

NextDocs ==
    \/ \E node \in {RootAddress} \cup FolderAddresses : DocsInSubtree(node)
    \/ \E tagIds \in TagIdLists : GetDocsForTags(tagIds)

(***************************************************************************)
(* ConfirmationDialogProvider                                              *)
(***************************************************************************)
MaxInvoked == 2

\* ConfirmationDialogOptions: the callbacks are named after the dialog that
\* carries them; onCancel is optional.
ConfirmationDialogOptions(id, title, withCancel) ==
    [title |-> title,
     onConfirm |-> <<id, "onConfirm">>,
     onCancel |-> IF withCancel THEN Some(<<id, "onCancel">>) ELSE Undefined]

DialogIds == {"o1", "o2"}
DialogOptions ==
    {ConfirmationDialogOptions(id, id, withCancel) : id \in DialogIds, withCancel \in BOOLEAN}

DlgIdle ==
    /\ dialogOptions = Undefined
    /\ invoked = <<>>
    /\ dlgLast = [op |-> "none"]


InitDialog == DlgIdle

\* What the user or a caller did, with dialogOptions and the invoked
\* callbacks before it.
DlgDid(op) == [op |-> op, options |-> dialogOptions, invoked |-> invoked]

\* setDialogOptions(null)
closeConfirmationDialog == Undefined

onConfirmClickKeepsOpen(options, calls) ==
    [dialogOptions |-> Some(options), invoked |-> Append(calls, options.onConfirm)]

\* onClick of the confirm button: dialogOptions.onConfirm(); closeConfirmationDialog()
onConfirmClick(options, calls) ==
    [dialogOptions |-> closeConfirmationDialog, invoked |-> Append(calls, options.onConfirm)]

\* showConfirmationDialog(options): setDialogOptions(options)
showConfirmationDialog(options) ==
    /\ dialogOptions' = Some(options)
    /\ dlgLast' = DlgDid("show")
    /\ UNCHANGED <<invoked, teamVars, navVars, treeVars, selVars, aggVars, shareVars>>

\* The confirm button of the rendered dialog is clicked.
ClickConfirm ==
    /\ dialogOptions # Undefined
    /\ Len(invoked) < MaxInvoked
    /\ dialogOptions' = onConfirmClick(dialogOptions.value, invoked).dialogOptions
    /\ invoked' = onConfirmClick(dialogOptions.value, invoked).invoked
    /\ dlgLast' = DlgDid("confirm")
    /\ UNCHANGED <<teamVars, navVars, treeVars, selVars, aggVars, shareVars>>

\* The cancel button of the rendered dialog is clicked: closeConfirmationDialog
ClickCancel ==
    /\ dialogOptions # Undefined
    /\ dialogOptions' = closeConfirmationDialog
    /\ dlgLast' = DlgDid("cancel")
    /\ UNCHANGED <<invoked, teamVars, navVars, treeVars, selVars, aggVars, shareVars>>

\* <Dialog onClose>: the backdrop is clicked or Escape is pressed
Dismiss ==
    /\ dialogOptions # Undefined
    /\ dialogOptions' = closeConfirmationDialog
    /\ dlgLast' = DlgDid("dismiss")
    /\ UNCHANGED <<invoked, teamVars, navVars, treeVars, selVars, aggVars, shareVars>>

NextDialog ==
    \/ \E options \in DialogOptions : showConfirmationDialog(options)
    \/ ClickConfirm
    \/ ClickCancel
    \/ Dismiss

(***************************************************************************)
(* DocumentLibraryShareAddTab: pending recipients and handleShare          *)
(***************************************************************************)
MaxShareUsers == 2

ShareUsers == 1..MaxShareUsers
UserTagRelations == {"viewer", "editor"}
SearchQueries == {<<>>, <<"q">>}

\* DocumentLibraryPendingRecipient: a TagShareRequest for a user
PendingRecipient(id, relation) ==
    [relation |-> relation, target_id |-> id, target_type |-> "user"]

ShareForbidden == "documentLibraryShareDialog.shareForbidden"
ShareError == "documentLibraryShareDialog.shareError"

\* The errors a rejected share request may carry: a status, an
\* originalStatus, and data with a status and a detail.
Detail(kind) == [value |-> IF kind = "string" THEN "detail" ELSE "", kind |-> kind]
ErrorData(status, detail) == Some([status |-> status, detail |-> detail])
RequestError(status, originalStatus, data) ==
    Some([status |-> status, data |-> data, originalStatus |-> originalStatus])

RequestErrors ==
    {Undefined,
     RequestError(Some("403"), Undefined, Undefined),
     RequestError(Some("500"), Undefined, Undefined),
     RequestError(Some("500"), Undefined, ErrorData(Undefined, Detail("string"))),
     RequestError(Some("403"), Undefined, ErrorData(Undefined, Detail("string"))),
     RequestError(Some("403"), Undefined, ErrorData(Undefined, Detail("other"))),
     RequestError(Some("500"), Undefined, ErrorData(Undefined, Detail("absent"))),
     RequestError(Some("PARSING_ERROR"), Some("403"), Undefined),
     RequestError(Undefined, Some("403"), Undefined),
     RequestError(Undefined, Undefined, ErrorData(Some("403"), Detail("absent"))),
     RequestError(Undefined, Undefined, ErrorData(Some("500"), Detail("other")))}

\* error?.status ?? error?.originalStatus ?? error?.data?.status
statusOf(error) ==
    IF error = Undefined THEN Undefined
    ELSE IF error.value.status # Undefined THEN error.value.status
    ELSE IF error.value.originalStatus # Undefined THEN error.value.originalStatus
    ELSE IF error.value.data # Undefined THEN error.value.data.value.status
    ELSE Undefined

messageOfStatusOnly(error) ==
    IF statusOf(error) = Some("403") THEN ShareForbidden ELSE ShareError

\* the message of the catch block
messageOf(error) ==
    LET isForbidden == statusOf(error) = Some("403")
        message == IF isForbidden THEN ShareForbidden ELSE ShareError
    IN  IF /\ error # Undefined
           /\ error.value.data # Undefined
           /\ error.value.data.value.detail.kind = "string"
        THEN error.value.data.value.detail.value
        ELSE message

NoRun == [phase |-> "none"]

ShareIdle ==
    /\ shareProps = [tag |-> [id |-> "g1", name |-> "a"], onShared |-> FALSE]
    /\ pendingRecipients = <<>>
    /\ searchQuery = <<>>
    /\ isSharing = FALSE
    /\ shareError = Undefined
    /\ shareRun = NoRun

OthersIdle == DlgIdle /\ ShareIdle

InitShare ==
    /\ shareProps \in [tag : {[id |-> "g1", name |-> "a"]}, onShared : BOOLEAN]
    /\ pendingRecipients = <<>>
    /\ searchQuery = <<>>
    /\ isSharing = FALSE
    /\ shareError = Undefined
    /\ shareRun = NoRun

\* A finished run is forgotten once something else happens.
Past(run) == IF run.phase = "finished" THEN NoRun ELSE run

\* handleAddRecipient(newRecipient); the list of users is disabled while sharing
handleAddRecipient(newRecipient) ==
    /\ ~isSharing
    /\ pendingRecipients' =
          IF \E i \in 1..Len(pendingRecipients) :
                pendingRecipients[i].target_id = newRecipient.target_id
          THEN pendingRecipients
          ELSE Append(pendingRecipients, newRecipient)
    /\ shareRun' = Past(shareRun)
    /\ UNCHANGED <<shareProps, searchQuery, isSharing, shareError,
                   teamVars, navVars, treeVars, selVars, aggVars, dlgVars>>

\* handleRelationChange(id, relation); the pending list is disabled while sharing
handleRelationChange(id, relation) ==
    /\ ~isSharing
    /\ \E i \in 1..Len(pendingRecipients) :
          pendingRecipients[i].target_id = id /\ pendingRecipients[i].relation # relation
    /\ pendingRecipients' =
          [i \in 1..Len(pendingRecipients) |->
              IF pendingRecipients[i].target_id = id
              THEN PendingRecipient(pendingRecipients[i].target_id, relation)
              ELSE pendingRecipients[i]]
    /\ shareRun' = Past(shareRun)
    /\ UNCHANGED <<shareProps, searchQuery, isSharing, shareError,
                   teamVars, navVars, treeVars, selVars, aggVars, dlgVars>>

\* handleRemoveRecipient(id); the pending list is disabled while sharing
handleRemoveRecipient(id) ==
    /\ ~isSharing
    /\ \E i \in 1..Len(pendingRecipients) : pendingRecipients[i].target_id = id
    /\ pendingRecipients' =
          LET Others(item) == item.target_id # id
          IN  SelectSeq(pendingRecipients, Others)
    /\ shareRun' = Past(shareRun)
    /\ UNCHANGED <<shareProps, searchQuery, isSharing, shareError,
                   teamVars, navVars, treeVars, selVars, aggVars, dlgVars>>

\* onChange of the search field, which is disabled while sharing
setSearchQuery(query) ==
    /\ ~isSharing
    /\ query # searchQuery
    /\ searchQuery' = query
    /\ shareRun' = Past(shareRun)
    /\ UNCHANGED <<shareProps, pendingRecipients, isSharing, shareError,
                   teamVars, navVars, treeVars, selVars, aggVars, dlgVars>>

\* onClose of the alert that shows shareError
closeAlert ==
    /\ shareError # Undefined
    /\ shareError' = Undefined
    /\ shareRun' = Past(shareRun)
    /\ UNCHANGED <<shareProps, pendingRecipients, searchQuery, isSharing,
                   teamVars, navVars, treeVars, selVars, aggVars, dlgVars>>

\* shareTag({ tagId: tag.id, tagShareRequest: recipient })
ShareRequest(recipient) == [tagId |-> shareProps.tag.id, tagShareRequest |-> recipient]

\* handleShare up to its first await.  The run captures the pendingRecipients
\* of the render it was created in; the share button is disabled while
\* sharing.
handleShare ==
    /\ ~isSharing
    /\ shareRun.phase # "running"
    /\ IF Len(pendingRecipients) = 0
       THEN /\ shareRun' = [error |-> Undefined, phase |-> "finished", onShared |-> 0,
                            query |-> searchQuery, list |-> <<>>,
                            errorBefore |-> shareError, sent |-> <<>>, results |-> <<>>]
            /\ UNCHANGED <<isSharing, shareError>>
       ELSE /\ isSharing' = TRUE
            /\ shareError' = Undefined
            /\ shareRun' = [error |-> Undefined, phase |-> "running", onShared |-> 0,
                            query |-> searchQuery, list |-> pendingRecipients,
                            errorBefore |-> shareError,
                            sent |-> <<ShareRequest(pendingRecipients[1])>>,
                            results |-> <<>>]
    /\ UNCHANGED <<shareProps, pendingRecipients, searchQuery,
                   teamVars, navVars, treeVars, selVars, aggVars, dlgVars>>

\* The awaited request succeeded: the loop sends the next request, or, after
\* the last one, setPendingRecipients([]); setSearchQuery(""); onShared?.();
\* and finally setIsSharing(false).
RequestFulfilled ==
    /\ shareRun.phase = "running"
    /\ IF Len(shareRun.sent) < Len(shareRun.list)
       THEN /\ shareRun' =
                  [shareRun EXCEPT
                      !.results = Append(@, "fulfilled"),
                      !.sent = Append(@, ShareRequest(shareRun.list[Len(shareRun.sent) + 1]))]
            /\ UNCHANGED <<pendingRecipients, searchQuery, isSharing>>
       ELSE /\ pendingRecipients' = <<>>
            /\ searchQuery' = <<>>
            /\ isSharing' = FALSE
            /\ shareRun' = [shareRun EXCEPT !.results = Append(@, "fulfilled"),
                                            !.onShared = IF shareProps.onShared THEN 1 ELSE 0,
                                            !.phase = "finished"]
    /\ UNCHANGED <<shareProps, shareError,
                   teamVars, navVars, treeVars, selVars, aggVars, dlgVars>>

RequestRejectedContinues(error) ==
    /\ shareRun.phase = "running"
    /\ Len(shareRun.sent) < Len(shareRun.list)
    /\ shareError' = Some(messageOf(error))
    /\ shareRun' =
          [shareRun EXCEPT
              !.results = Append(@, "rejected"),
              !.error = error,
              !.sent = Append(@, ShareRequest(shareRun.list[Len(shareRun.sent) + 1]))]
    /\ UNCHANGED <<shareProps, pendingRecipients, searchQuery, isSharing,
                   teamVars, navVars, treeVars, selVars, aggVars, dlgVars>>

\* The awaited request failed: catch (error) { ...; setShareError(message) }
\* and finally setIsSharing(false).
RequestRejected(error) ==
    /\ shareRun.phase = "running"
    /\ shareError' = Some(messageOf(error))
    /\ isSharing' = FALSE
    /\ shareRun' = [shareRun EXCEPT !.results = Append(@, "rejected"),
                                    !.error = error,
                                    !.phase = "finished"]
    /\ UNCHANGED <<shareProps, pendingRecipients, searchQuery,
                   teamVars, navVars, treeVars, selVars, aggVars, dlgVars>>

NextShare ==
    \/ \E id \in ShareUsers, relation \in UserTagRelations :
          handleAddRecipient(PendingRecipient(id, relation))
    \/ \E id \in ShareUsers, relation \in UserTagRelations : handleRelationChange(id, relation)
    \/ \E id \in ShareUsers : handleRemoveRecipient(id)
    \/ \E query \in SearchQueries : setSearchQuery(query)
    \/ closeAlert
    \/ handleShare
    \/ RequestFulfilled
    \/ \E error \in RequestErrors : RequestRejected(error)

AuxIdle == AggIdle /\ OthersIdle

Init == InitTeams /\ NavIdle /\ TreeIdle /\ SelIdle /\ AuxIdle
Next == NextTeams
Spec == Init /\ [][Next]_vars

InitNavOnly == InitNav /\ TeamsIdle /\ TreeIdle /\ SelIdle /\ AuxIdle
SpecNav == InitNavOnly /\ [][NextNav]_vars

InitTreeOnly == InitTree /\ TeamsIdle /\ NavIdle /\ SelIdle /\ AuxIdle
SpecTree == InitTreeOnly /\ [][NextTree]_vars

InitSelOnly == InitSel /\ TeamsIdle /\ NavIdle /\ AuxIdle
SpecSel == InitSelOnly /\ [][NextSel]_vars

InitAggOnly == InitAgg /\ TeamsIdle /\ NavIdle /\ SelIdle /\ OthersIdle
SpecAgg == InitAggOnly /\ [][NextAgg]_vars

InitDocsOnly == InitDocs /\ TeamsIdle /\ NavIdle /\ OthersIdle
SpecDocs == InitDocsOnly /\ [][NextDocs]_vars

InitDialogOnly == InitDialog /\ TeamsIdle /\ NavIdle /\ TreeIdle /\ SelIdle /\ AggIdle /\ ShareIdle
SpecDialog == InitDialogOnly /\ [][NextDialog]_vars

InitShareOnly == InitShare /\ TeamsIdle /\ NavIdle /\ TreeIdle /\ SelIdle /\ AggIdle /\ DlgIdle
SpecShare == InitShareOnly /\ [][NextShare]_vars

(***************************************************************************)
(* Properties of the team cache                                            *)
(***************************************************************************)
Cached(k) == cache[k].status # "uninitialized"
HasTag(k, tag) == tag \in Range(cache[k].tags)
Refetching(k) == cache[k].status = "pending" /\ cache[k].data.defined

TeamInfoMutation(t) ==
    \/ updateTeam(t)
    \/ uploadTeamBanner(t)
    \/ \E u \in Users : MutationRejected("updateTeam", t, u)
    \/ \E u \in Users : MutationRejected("uploadTeamBanner", t, u)

MemberMutation(t) ==
    \/ \E u \in Users, r \in TEAM_ROLES, p \in SUBSET TabPermissions :
          \/ addTeamMember(t, u, r, p)
          \/ updateTeamMember(t, u, r, p)
          \/ removeTeamMember(t, u, p)
    \/ \E u \in Users, op \in {"addTeamMember", "updateTeamMember", "removeTeamMember"} :
          MutationRejected(op, t, u)

\* A settled answer of getTeam or listTeams shows the team info of the backend.
TeamInfoFresh ==
    /\ \A t \in Teams :
          cache[GetTeamKey(t)].status = "fulfilled"
          => cache[GetTeamKey(t)].data.value.rev = serverTeams[t].rev
    /\ cache[ListTeamsKey].status = "fulfilled"
       => \A i \in 1..Len(cache[ListTeamsKey].data.value) :
             cache[ListTeamsKey].data.value[i].rev
             = serverTeams[cache[ListTeamsKey].data.value[i].id].rev

\* C1: when updateTeam or uploadTeamBanner for team T completes, every cached
\* query tagged Team:T or Team:LIST is refetched at once (it is pending in the
\* next state; a step after which one is not is no such mutation), and no
\* settled answer of getTeam or listTeams ever shows team info older than
\* the backend's.
C1_TeamMutationRefetches ==
    /\ []TeamInfoFresh
    /\ [][\A t \in Teams :
            \/ \A k \in QueryKeys :
                  (Cached(k) /\ (HasTag(k, Tag("Team", t)) \/ HasTag(k, Tag("Team", "LIST"))))
                  => cache'[k].status = "pending"
            \/ ~TeamInfoMutation(t)]_vars

\* C1 witness: updateTeam has completed for the viewed team and both its
\* getTeam answer and (elsewhere) a listTeams answer are being refetched.
C1_Witness ==
    /\ Refetching(ListTeamsKey)
    /\ HasTag(ListTeamsKey, Tag("Team", ViewedTeam))
    /\ cache[ListTeamsKey].data.value[1].rev < serverTeams[ViewedTeam].rev

\* A settled member list, and the permissions of a settled getTeam answer,
\* are those of the backend.
MembersFresh ==
    \A t \in Teams :
       /\ cache[MembersKey(t)].status = "fulfilled"
          => cache[MembersKey(t)].data.value = MapMembers(serverMembers[t], UserOrder)
       /\ cache[GetTeamKey(t)].status = "fulfilled"
          => cache[GetTeamKey(t)].data.value.permissions = serverTeams[t].permissions

\* C2: when addTeamMember, updateTeamMember or removeTeamMember on team T
\* completes, the cached member list of T and the cached getTeam(T) answer
\* are both refetched at once, and no settled member list or settled team
\* permissions are older than the backend's.
C2_MemberMutationRefetches ==
    /\ []MembersFresh
    /\ [][\A t \in Teams :
            \/ \A k \in {MembersKey(t), GetTeamKey(t)} :
                  Cached(k) => cache'[k].status = "pending"
            \/ ~MemberMutation(t)]_vars

\* C2 witness: a member mutation has completed while the members page showed
\* the list: list and team are both being refetched and the list shown is
\* not the backend's any more.
C2_Witness ==
    /\ Refetching(MembersKey(ViewedTeam))
    /\ Refetching(GetTeamKey(ViewedTeam))
    /\ cache[MembersKey(ViewedTeam)].data.value
       # MapMembers(serverMembers[ViewedTeam], UserOrder)

Answered(k) == cache[k].status \in {"fulfilled", "rejected"}

\* C3: an answered list query always provides its LIST tag, whether or not
\* the answer carried a result, and with a result exactly one tag per item,
\* in order: Team:<id> for listTeams, TeamMember:<T>-<userId> for
\* listTeamMembers(T); so invalidating the LIST tag always matches the list.
C3_ListTagAlwaysProvided ==
    /\ Answered(ListTeamsKey)
       => /\ HasTag(ListTeamsKey, Tag("Team", "LIST"))
          /\ ListTeamsKey \in Matching(cache, <<Tag("Team", "LIST")>>)
          /\ cache[ListTeamsKey].status = "fulfilled"
             => LET r == cache[ListTeamsKey].data.value
                    g == cache[ListTeamsKey].tags
                IN  /\ Len(g) = Len(r) + 1
                    /\ \A i \in 1..Len(r) : g[i] = Tag("Team", r[i].id)
          /\ cache[ListTeamsKey].status = "rejected"
             => cache[ListTeamsKey].tags = <<Tag("Team", "LIST")>>
    /\ \A t \in Teams :
          Answered(MembersKey(t))
          => /\ HasTag(MembersKey(t), Tag("TeamMember", "LIST-" \o t))
             /\ MembersKey(t) \in Matching(cache, <<Tag("TeamMember", "LIST-" \o t)>>)
             /\ cache[MembersKey(t)].status = "fulfilled"
                => LET r == cache[MembersKey(t)].data.value
                       g == cache[MembersKey(t)].tags
                   IN  /\ Len(g) = Len(r) + 1
                       /\ \A i \in 1..Len(r) :
                             g[i] = Tag("TeamMember", t \o "-" \o r[i].user.id)
             /\ cache[MembersKey(t)].status = "rejected"
                => cache[MembersKey(t)].tags = <<Tag("TeamMember", "LIST-" \o t)>>

\* C3 witness: the last fetch of listTeams returned nothing and it still
\* carries Team:LIST.
C3_Witness ==
    /\ cache[ListTeamsKey].status = "rejected"
    /\ ~cache[ListTeamsKey].data.defined
    /\ cache[ListTeamsKey].tags = <<Tag("Team", "LIST")>>

(***************************************************************************)
(* Properties of NavigationTabs                                            *)
(***************************************************************************)
\* C4 (as claimed): with isLoading = true NavigationTabs never redirects
\* while the current path matches no tab, so every redirect made while
\* loading started from the path of a tab.
C4_NoRedirectWhileLoading ==
    (navLast.kind = "redirect" /\ navLast.isLoading)
    => \E i \in 1..Len(navProps.tabs) : navProps.tabs[i].path = navLast.from

ExpectedRedirect ==
    IF navProps.defaultPath # NoPath THEN navProps.defaultPath
    ELSE navProps.tabs[1].path

\* C5: with isLoading false and a current path that matches no tab,
\* NavigationTabs redirects, with replace, to defaultPath if given and else to
\* the first tab's path; with a current path equal to a tab's path it does
\* not redirect, renders that tab's component and selects that tab.
C5_RedirectOrRender ==
    /\ (NavMounted /\ ~navProps.isLoading
        /\ \A i \in 1..Len(navProps.tabs) : navProps.tabs[i].path # navLocation)
       => NavRendered.content = [kind |-> "navigate", to |-> ExpectedRedirect,
                                 replace |-> TRUE]
    /\ \A i \in 1..Len(navProps.tabs) :
          (NavMounted /\ navProps.tabs[i].path = navLocation)
          => /\ NavRendered.content = [kind |-> "component",
                                       component |-> navProps.tabs[i].component]
             /\ NavRendered.value = Some(i)
    /\ (navLast.kind = "redirect" /\ ~navLast.isLoading)
       => /\ navLast.replace
          /\ navLocation = ExpectedRedirect
          /\ \A i \in 1..Len(navProps.tabs) : navProps.tabs[i].path # navLast.from

\* C5 witness: a redirect from an unknown path has led to the first tab,
\* whose component is now rendered.
C5_Witness ==
    /\ navLast.kind = "redirect"
    /\ ~navLast.isLoading
    /\ navLast.from = NavBase \o <<"drafts">>
    /\ navProps.defaultPath = NoPath
    /\ Len(navProps.tabs) > 1
    /\ navLocation = navProps.tabs[1].path
    /\ NavRendered.content.kind = "component"

(***************************************************************************)
(* Properties of TeamDetailsPage                                           *)
(***************************************************************************)
GatedTabHolds(seg, component, perm) ==
    LET t == TeamIdOf(location)
        entry == cache[GetTeamKey(t)]
        page == TeamDetailsPage(cache, location)
    IN  location = TeamPath(t, seg)
        => /\ HookIsLoading(entry) => page.content.kind # "navigate"
           /\ entry.data.defined
              => /\ page.content = ElementOf(component)
                    <=> perm \in entry.data.value.permissions
                 /\ perm \notin entry.data.value.permissions
                    => page.content = Navigate(TeamPath(t, "apps"))

\* C6: on /team/T/members (or /settings): while the team query is loading
\* no redirect is rendered; once the team is loaded the members page is
\* rendered iff its permissions contain can_read_members (settings:
\* can_update_info) and otherwise a redirect to the first tab /team/T/apps
\* is rendered and leads there; the apps tab is always the first tab.
C6_TeamTabsFollowPermissions ==
    /\ [](OnTeamPage(location)
          => /\ TeamDetailsProps(cache, location).tabs[1].path
                = TeamPath(TeamIdOf(location), "apps")
             /\ GatedTabHolds("members", "TeamMembersPage", "can_read_members")
             /\ GatedTabHolds("settings", "TeamSettingsPage", "can_update_info"))
    /\ [][(Len(location) = 3 /\ location[3] \in {"members", "settings"}
           /\ location' # location /\ Redirect)
          => /\ ~HookIsLoading(cache[GetTeamKey(TeamIdOf(location))])
             /\ location' = TeamPath(TeamIdOf(location), "apps")]_vars

\* C6 witness: the user opened /team/T/members, the team loaded without
\* can_read_members and the redirect to /team/T/apps is rendered.
C6_Witness ==
    /\ location = TeamPath(ViewedTeam, "members")
    /\ cache[GetTeamKey(ViewedTeam)].status = "fulfilled"
    /\ "can_read_members" \notin cache[GetTeamKey(ViewedTeam)].data.value.permissions
    /\ TeamDetailsPage(cache, location).content = Navigate(TeamPath(ViewedTeam, "apps"))

(***************************************************************************)
(* Properties of the tag tree                                              *)
(***************************************************************************)
NodesWith(t) == {a \in DOMAIN tree : t \in Range(tree[a].tagsHere)}

RECURSIVE JoinSlash(_)
JoinSlash(names) ==
    IF names = <<>> THEN <<>>
    ELSE IF Len(names) = 1 THEN names[1]
    ELSE names[1] \o <<"/">> \o JoinSlash(Tail(names))

\* The names of the nodes on the way from the root down to the node at a.
PathNames(a) == [i \in 1..Len(a) |-> tree[SubSeq(a, 1, i)].name]

Occurrences(seq, x) == Cardinality({i \in 1..Len(seq) : seq[i] = x})

TreeIsBuilt == tree # NoTree

\* C9: buildTree places every tag t of the list in tagsHere of exactly one
\* node, findNode(buildTree(tags), fullPath(t)) returns that node, and every
\* node's full is the names from the root to it joined by "/".
C9_TreePlacesEveryTag ==
    TreeIsBuilt
    => /\ \A i \in 1..Len(treeTags) :
             /\ Cardinality(NodesWith(treeTags[i])) = 1
             /\ \A a \in NodesWith(treeTags[i]) :
                   Occurrences(tree[a].tagsHere, treeTags[i]) = 1
             /\ findNode(tree, Some(fullPath(treeTags[i]))) \in NodesWith(treeTags[i])
             /\ treePath = Some(fullPath(treeTags[i]))
                => treeFound \in NodesWith(treeTags[i])
       /\ \A a \in DOMAIN tree :
             /\ tree[a].full = JoinSlash(PathNames(a))
             /\ \A i \in 1..Len(a) : SubSeq(a, 1, i) \in DOMAIN tree

\* C9 witness: findNode was asked for the full path of a tag two levels down
\* and returned the node holding it.
C9_Witness ==
    /\ TreeIsBuilt
    /\ Len(treeFound) = 2
    /\ \E i \in 1..Len(treeTags) :
          /\ treePath = Some(fullPath(treeTags[i]))
          /\ treeTags[i] \in Range(tree[treeFound].tagsHere)

PartsOf(path) == filterBoolean(split(path.value))

Expected(path) ==
    IF ~path.defined \/ path.value = <<>> THEN RootAddress
    ELSE IF PartsOf(path) \in DOMAIN tree THEN PartsOf(path)
    ELSE RootAddress

\* C10: findNode returns the root for an undefined or empty path and for a
\* path one of whose segments has no matching child; it always returns a
\* node of the tree, never a partially matched one for an unknown path.
C10_FindNodeFallsBackToRoot ==
    (TreeIsBuilt \/ treeTags = <<>>)
    => /\ treeFound \in DOMAIN tree
       /\ treeFound = Expected(treePath)
       /\ \A path \in FindPaths :
             /\ findNode(tree, path) \in DOMAIN tree
             /\ findNode(tree, path) = Expected(path)

\* C10 witness: the first segment of the path asked for names a child of the
\* root, a later one names nothing, and findNode returned the root.
C10_Witness ==
    /\ TreeIsBuilt
    /\ treePath.defined
    /\ Len(PartsOf(treePath)) >= 2
    /\ <<PartsOf(treePath)[1]>> \in DOMAIN tree
    /\ PartsOf(treePath) \notin DOMAIN tree
    /\ treeFound = RootAddress

(***************************************************************************)
(* Folder checkbox and folder selection                                    *)
(***************************************************************************)
\* The documents loaded for a tag of the folder at n or of a folder below it.
SubtreeDocs(n) ==
    {d \in Docs :
        \E m \in DOMAIN tree :
            /\ IsPrefix(n, m)
            /\ \E i \in 1..Len(tree[m].tagsHere) :
                  \E k \in 1..Len(documentsByTagId[tree[m].tagsHere[i].id]) :
                      documentsByTagId[tree[m].tagsHere[i].id][k].identity.document_uid = d}

WithPrimaryTag == {n \in Folders : tree[n].tagsHere # <<>>}

PrimaryId(n) == tree[n].tagsHere[1].id

\* The documents of the subtree that carry the tag g.
EligibleSet(n, g) ==
    {d \in SubtreeDocs(n) : \E i \in 1..Len(DocTagIds[d]) : DocTagIds[d][i] = g}

SelectedUnder(sel, d, g) == sel[d] # Undefined /\ sel[d].value.id = g

SelectedSet(n, g) == {d \in EligibleSet(n, g) : SelectedUnder(selectedDocs, d, g)}

Checked(n) ==
    folderChecked(tree, n, documentsByTagId, selectedDocs, selectedFolder,
                  selectedFolderTotal, perTagTotals)

Indeterminate(n) ==
    folderIndeterminate(tree, n, documentsByTagId, selectedDocs, selectedFolder,
                        selectedFolderTotal, perTagTotals)

\* Checked when all eligible documents (at least one) are selected under the
\* tag, indeterminate when some but not all are, unchecked when none is.
TriState(n) ==
    LET E == EligibleSet(n, PrimaryId(n))
        S == SelectedSet(n, PrimaryId(n))
    IN  /\ Checked(n) <=> (E # {} /\ S = E)
        /\ Indeterminate(n) <=> (S # {} /\ S # E)
        /\ (~Checked(n) /\ ~Indeterminate(n)) <=> (S = {})
        /\ ~(Checked(n) /\ Indeterminate(n))

\* C7 as stated: for every folder with a primary tag the checkbox is checked
\* exactly when every eligible document of its subtree is selected under the
\* tag, indeterminate exactly when some but not all are, unchecked exactly
\* when none is, and never both checked and indeterminate.
C7_TriStateOverLoadedDocuments == \A n \in WithPrimaryTag : TriState(n)

\* The total the folder's selection is compared with: the total of the
\* selected folder when this folder is selected and the total is known, else
\* the cached total of the tag when known, else the number of eligible
\* documents.
KnownTotal(n) ==
    IF selectedFolder = Some(tree[n].full) /\ selectedFolderTotal # Undefined
    THEN selectedFolderTotal
    ELSE IF perTagTotals # Undefined THEN perTagTotals.value[PrimaryId(n)]
    ELSE Undefined

\* C7, amended: for every folder with a primary tag, with T the known total of
\* the folder (or the number of eligible documents when no total is known) and
\* s the number of eligible documents selected under the tag, the checkbox is
\* checked exactly when T > 0 and s = T, indeterminate exactly when
\* 0 < s < T, never both; when T is the number of eligible documents this is
\* the tri-state over the eligible documents.
C7_TriStateAgainstTotal ==
    \A n \in WithPrimaryTag :
        LET E == EligibleSet(n, PrimaryId(n))
            s == Cardinality(SelectedSet(n, PrimaryId(n)))
            T == IF KnownTotal(n) # Undefined THEN KnownTotal(n).value ELSE Cardinality(E)
        IN  /\ Checked(n) <=> (T > 0 /\ s = T)
            /\ Indeterminate(n) <=> (0 < s /\ s < T)
            /\ ~(Checked(n) /\ Indeterminate(n))
            /\ (T = Cardinality(E)) => TriState(n)

\* A folder whose known total exceeds its loaded eligible documents, all of
\* them selected: the checkbox is indeterminate; and a folder below it that
\* is checked.
C7_Witness ==
    \E n \in WithPrimaryTag :
        /\ KnownTotal(n) # Undefined
        /\ EligibleSet(n, PrimaryId(n)) # {}
        /\ SelectedSet(n, PrimaryId(n)) = EligibleSet(n, PrimaryId(n))
        /\ KnownTotal(n).value > Cardinality(EligibleSet(n, PrimaryId(n)))
        /\ Indeterminate(n)
        /\ \E m \in WithPrimaryTag : m # n /\ Checked(m)

TagIdsBelow(n) ==
    UNION {{tree[m].tagsHere[k].id : k \in 1..Len(tree[m].tagsHere)} :
              m \in {m \in DOMAIN tree : IsPrefix(n, m)}}

NoDuplicates(seq) == \A i, j \in 1..Len(seq) : seq[i] = seq[j] => i = j

\* C11: collectDescendantTagIds(node) returns, without duplicates, exactly
\* the ids of the tags in tagsHere of node and of all its descendants; for
\* the root of buildTree(tags) these are exactly the ids of tags.
C11_CollectDescendantTagIds ==
    aggCall.fn = "collectDescendantTagIds" =>
        /\ NoDuplicates(aggResult)
        /\ Range(aggResult) = TagIdsBelow(aggCall.node)
        /\ aggCall.node = RootAddress
              => Range(aggResult) = {treeTags[i].id : i \in 1..Len(treeTags)}

\* The ids of a folder that holds a tag and has a folder below it holding a
\* tag with the same id: the id is returned once.
C11_Witness ==
    /\ aggCall.fn = "collectDescendantTagIds"
    /\ aggCall.node # RootAddress
    /\ tree[aggCall.node].tagsHere # <<>>
    /\ tree[aggCall.node].children # <<>>
    /\ Len(aggResult) >= 1
    /\ Len(collectDescendantTagIdsNoSet(tree, aggCall.node)) > Len(aggResult)

(***************************************************************************)
(* docsInSubtree and getDocsForTags                                        *)
(***************************************************************************)
\* The lists of the given tag ids, one after the other.
RECURSIVE Listed(_)
Listed(tagIds) ==
    IF tagIds = <<>> THEN <<>> ELSE documentsByTagId[Head(tagIds)] \o Listed(Tail(tagIds))

\* The positions of a list that hold the first document with their uid.
FirstPositions(list) ==
    {i \in 1..Len(list) :
        \A j \in 1..(i - 1) : list[j].identity.document_uid # list[i].identity.document_uid}

\* The k-th smallest element of a set of numbers.
Kth(F, k) == CHOOSE i \in F : Cardinality({j \in F : j < i}) = k - 1

DistinctUids(docs) ==
    \A i, j \in 1..Len(docs) :
        docs[i].identity.document_uid = docs[j].identity.document_uid => i = j

\* The documents loaded for a tag of the node at n or of a node below it.
LoadedBelow(n) ==
    UNION {UNION {Range(documentsByTagId[tree[m].tagsHere[k].id]) :
                     k \in 1..Len(tree[m].tagsHere)} :
              m \in {m \in DOMAIN tree : IsPrefix(n, m)}}

\* C12: docsInSubtree(node) returns every document loaded for a tag of node
\* or of a descendant of node, each uid exactly once, and no other document;
\* getDocsForTags(tagIds) returns the documents of the given tag ids without
\* a repeated uid, keeping the first occurrence of each, in order.
C12_DocumentsWithoutDuplicates ==
    /\ aggCall.fn = "docsInSubtree" =>
          /\ DistinctUids(aggResult)
          /\ Range(aggResult) \subseteq LoadedBelow(aggCall.node)
          /\ {doc.identity.document_uid : doc \in Range(aggResult)}
             = {doc.identity.document_uid : doc \in LoadedBelow(aggCall.node)}
    /\ aggCall.fn = "getDocsForTags" =>
          LET list == Listed(aggCall.tagIds)
              F == FirstPositions(list)
          IN  /\ DistinctUids(aggResult)
              /\ Len(aggResult) = Cardinality(F)
              /\ \A k \in 1..Len(aggResult) : aggResult[k] = list[Kth(F, k)]

\* getDocsForTags over two tags whose lists share a document that came with
\* different metadata, and docsInSubtree of a folder that has a folder below
\* it with such a document.
C12_Witness ==
    \/ /\ aggCall.fn = "getDocsForTags"
       /\ Len(aggCall.tagIds) = 2
       /\ aggCall.tagIds[1] # aggCall.tagIds[2]
       /\ Len(aggResult) = 2
       /\ \E doc \in Range(documentsByTagId[aggCall.tagIds[2]]) :
             /\ doc \notin Range(aggResult)
             /\ \E first \in Range(documentsByTagId[aggCall.tagIds[1]]) :
                   first.identity.document_uid = doc.identity.document_uid
    \/ /\ aggCall.fn = "docsInSubtree"
       /\ tree[aggCall.node].tagsHere # <<>>
       /\ tree[aggCall.node].children # <<>>
       /\ Len(aggResult) = 2
       /\ Cardinality(LoadedBelow(aggCall.node)) = 3

(***************************************************************************)
(* The confirmation dialog                                                 *)
(***************************************************************************)
Closing == dlgLast.op \in {"cancel", "dismiss"}

\* C13: when the user cancels or dismisses the dialog, the onCancel callback
\* of its options (if any) is invoked and the dialog is closed.
C13_CancelInvokesOnCancel ==
    (Closing /\ dlgLast.options.value.onCancel # Undefined) =>
        /\ invoked = Append(dlgLast.invoked, dlgLast.options.value.onCancel.value)
        /\ dialogOptions = Undefined

\* C14: pressing confirm while a dialog is open invokes the onConfirm of that
\* dialog exactly once and then the dialog is closed; cancelling or dismissing
\* closes it and invokes no onConfirm; while no dialog is open no callback is
\* invoked; and the callbacks that can be invoked are those of the one dialog
\* that is open.
C14_ConfirmOnceThenClosed ==
    /\ [](/\ dlgLast.op = "confirm" =>
                /\ dlgLast.options # Undefined
                /\ invoked = Append(dlgLast.invoked, dlgLast.options.value.onConfirm)
                /\ dialogOptions = Undefined
          /\ Closing =>
                /\ dlgLast.options # Undefined
                /\ dialogOptions = Undefined
                /\ \A k \in 1..Len(invoked) :
                      k > Len(dlgLast.invoked) => invoked[k][2] # "onConfirm")
    /\ [][/\ dialogOptions = Undefined => invoked' = invoked
          /\ \A k \in 1..Len(invoked') :
                k > Len(invoked) =>
                    invoked'[k] \in {dialogOptions.value.onConfirm}
                                    \cup {c.value : c \in {dialogOptions.value.onCancel} \ {Undefined}}
         ]_vars

\* After the confirmation of a first dialog a second one, which also carries
\* an onCancel, was confirmed: its onConfirm alone was invoked, once, and no
\* dialog is open.
C14_Witness ==
    /\ dlgLast.op = "confirm"
    /\ dlgLast.options = Some(ConfirmationDialogOptions("o2", "o2", TRUE))
    /\ invoked = <<<<"o1", "onConfirm">>, <<"o2", "onConfirm">>>>
    /\ dialogOptions = Undefined

(***************************************************************************)
(* handleShare                                                             *)
(***************************************************************************)
Started == shareRun.phase \in {"running", "finished"}

AllFulfilled(results) == \A j \in 1..Len(results) : results[j] = "fulfilled"

\* C15: handleShare sends one share request per pending recipient, in the
\* order of the list, each only after the previous one succeeded; after the
\* first failing request it sends no further request; it clears the pending
\* list and calls onShared only if every request succeeded; with an empty
\* pending list it sends nothing.
C15_SharesInOrderUntilFailure ==
    Started =>
        LET list == shareRun.list
            sent == shareRun.sent
            results == shareRun.results
        IN  /\ Len(sent) <= Len(list)
            /\ \A k \in 1..Len(sent) :
                  sent[k] = [tagId |-> shareProps.tag.id, tagShareRequest |-> list[k]]
            /\ Len(results) <= Len(sent)
            /\ Len(sent) <= Len(results) + 1
            /\ \A k \in 1..Len(sent) : \A j \in 1..(k - 1) : results[j] = "fulfilled"
            /\ \A j \in 1..Len(results) : results[j] = "rejected" => Len(sent) = j
            /\ shareRun.phase = "finished" => Len(results) = Len(sent)
            /\ (shareRun.phase = "finished" /\ AllFulfilled(results) /\ list # <<>>) =>
                  /\ Len(sent) = Len(list)
                  /\ pendingRecipients = <<>>
                  /\ shareRun.onShared = (IF shareProps.onShared THEN 1 ELSE 0)
            /\ shareRun.onShared > 0 =>
                  /\ shareRun.phase = "finished"
                  /\ Len(results) = Len(list)
                  /\ AllFulfilled(results)
            /\ (shareRun.phase = "running" \/ ~AllFulfilled(results)) =>
                  pendingRecipients = list
            /\ list = <<>> => (sent = <<>> /\ pendingRecipients = <<>>)

\* Two recipients were shared with, in order; the list is cleared and
\* onShared was called.
C15_Witness ==
    /\ shareRun.phase = "finished"
    /\ Len(shareRun.list) = 2
    /\ shareRun.results = <<"fulfilled", "fulfilled">>
    /\ Len(shareRun.sent) = 2
    /\ shareRun.sent[1].tagShareRequest.target_id = 2
    /\ shareRun.onShared = 1
    /\ pendingRecipients = <<>>

\* The first defined of the statuses an error carries.
ErrorStatus(error) ==
    LET carried == <<error.value.status, error.value.originalStatus,
                     IF error.value.data # Undefined THEN error.value.data.value.status
                     ELSE Undefined>>
        defined == {i \in 1..3 : carried[i] # Undefined}
    IN  IF defined = {} THEN Undefined
        ELSE carried[CHOOSE i \in defined : \A j \in defined : i <= j]

HasStringDetail(error) ==
    /\ error # Undefined
    /\ error.value.data # Undefined
    /\ error.value.data.value.detail.kind = "string"

ExpectedMessage(error) ==
    IF HasStringDetail(error) THEN error.value.data.value.detail.value
    ELSE IF error # Undefined /\ ErrorStatus(error) = Some("403") THEN ShareForbidden
    ELSE ShareError

\* C16: if a share request fails, pendingRecipients and searchQuery are as
\* they were and shareError is the message of the failure (the string detail
\* of the backend if there is one, else the forbidden message when the status
\* is 403, else the generic message); shareError is cleared when an attempt
\* starts, and isSharing is false again once handleShare has finished.
C16_FailureKeepsListAndReports ==
    /\ shareRun.phase = "running" => (isSharing /\ shareError = Undefined)
    /\ shareRun.phase # "running" => ~isSharing
    /\ (shareRun.phase = "finished" /\ ~AllFulfilled(shareRun.results)) =>
          /\ pendingRecipients = shareRun.list
          /\ searchQuery = shareRun.query
          /\ shareError = Some(ExpectedMessage(shareRun.error))
    /\ (shareRun.phase = "finished" /\ AllFulfilled(shareRun.results) /\ shareRun.list # <<>>) =>
          shareError = Undefined

\* An attempt that started while an earlier error was shown: the first request
\* succeeded, the second failed with status 403 and a string detail; the
\* detail is shown, the list and the search text are kept.
C16_Witness ==
    /\ shareRun.phase = "finished"
    /\ shareRun.results = <<"fulfilled", "rejected">>
    /\ shareRun.errorBefore = Some(ShareForbidden)
    /\ shareRun.error = RequestError(Some("403"), Undefined, ErrorData(Undefined, Detail("string")))
    /\ shareError = Some("detail")
    /\ Len(pendingRecipients) = 2
    /\ searchQuery = <<"q">>
    /\ ~isSharing

====
